---- MODULE Spec2Model ----
(***************************************************************************)
(* Model of the donation bot in src/api/index.py: the webhook view, the    *)
(* update handlers registered on the application, the per-user             *)
(* conversation flag (context.user_data['waiting_for_amount']) and the     *)
(* SQLite ledger (tables users and donations).                             *)
(*                                                                         *)
(* A webhook call is a small process: webhook(c, body) decodes the body    *)
(* and either answers at once (400 / 500) or leaves the decoded update in  *)
(* flight; one handler action then runs for it (the first handler whose    *)
(* filter matches, as process_update does), and Respond(c) returns         *)
(* 'OK', 200.  Several calls may be in flight at once.  What a call sends  *)
(* to the messaging platform is kept with the call (out) while it is in    *)
(* flight.                                                                 *)
(***************************************************************************)
EXTENDS Integers, Sequences, FiniteSets, TLC

\* ------------------------------------------------------------------ bounds
MaxCalls == 2          \* webhook calls received in one behaviour
MaxRows == 3           \* donation rows of a ledger the reports are run on
MaxLimit == 3          \* the greatest limit get_last_donations is asked for

\* ------------------------------------------------------- program constants
ADMIN_USER_ID == 1     \* the configured administrator identity
StarsMinorUnits == 100 \* amount * 100 in send_invoice, total_amount // 100
ReportLimit == 10      \* get_last_donations(10)

UserIds == {1, 2}
CallIds == {1, 2}      \* the slots of the calls in flight: two may overlap

None == "<None>"       \* Python None / SQL NULL

\* ------------------------------------------------------------------- text
\* A message text is a sequence of one-character strings.
Digits == <<"0", "1", "2", "3", "4", "5", "6", "7", "8", "9">>

IsDigit(ch) == \E i \in 1..Len(Digits) : Digits[i] = ch

DigitVal(ch) == (CHOOSE i \in 1..Len(Digits) : Digits[i] = ch) - 1

IsSpace(ch) == ch \in {" ", "\t", "\n"}

RECURSIVE LStrip(_)
LStrip(s) == IF s # <<>> /\ IsSpace(Head(s)) THEN LStrip(Tail(s)) ELSE s

RECURSIVE RStrip(_)
RStrip(s) ==
    IF s # <<>> /\ IsSpace(s[Len(s)]) THEN RStrip(SubSeq(s, 1, Len(s) - 1)) ELSE s

\* str.strip()
Strip(s) == RStrip(LStrip(s))

RECURSIVE DigitsValue(_)
DigitsValue(s) ==
    IF s = <<>> THEN 0
    ELSE 10 * DigitsValue(SubSeq(s, 1, Len(s) - 1)) + DigitVal(s[Len(s)])

AllDigits(s) == s # <<>> /\ \A i \in 1..Len(s) : IsDigit(s[i])

\* int(s) for a str s: an optional sign, then decimal digits; anything else
\* raises ValueError (ok = FALSE).
ParseInt(s) ==
    LET t == Strip(s)
        signed == t # <<>> /\ Head(t) \in {"+", "-"}
        body == IF signed THEN Tail(t) ELSE t
    IN  IF AllDigits(body)
        THEN [ok |-> TRUE,
              value |-> IF signed /\ Head(t) = "-" THEN 0 - DigitsValue(body)
                        ELSE DigitsValue(body)]
        ELSE [ok |-> FALSE, value |-> 0]

\* ----------------------------------------------------------------- inputs
Texts ==
    {<<" ", "5", "0">>, <<"-", "3">>, <<"a", "b", "c">>, <<"0">>}

\* callback_data of the keyboard built in start: 'donate_<n>' and 'custom'
NoData == [head |-> "", arg |-> <<>>]
ButtonData ==
    {[head |-> "donate", arg |-> <<"1">>],
     [head |-> "donate", arg |-> <<"1", "0">>],
     [head |-> "donate", arg |-> <<"1", "0", "0">>],
     [head |-> "custom", arg |-> <<>>]}

\* What the platform reports about the sender.
Profiles ==
    {[username |-> None, first_name |-> "Ann", last_name |-> None],
     [username |-> "ann", first_name |-> "Anna", last_name |-> "Lee"]}
Profile0 == [username |-> None, first_name |-> "Ann", last_name |-> None]

\* invoice_payload: f"donation_{amount}_{user_id}", or any other opaque string
NoPayload == <<"", 0, 0>>
Payload(amount, user_id) == <<"donation", amount, user_id>>
PaymentPayloads == {Payload(10, 2), <<"gift", 0, 0>>}
PaymentTotals == {50, 1000}

\* pre_checkout_query: total_amount and invoice_payload
PreCheckouts == {<<50, <<"gift", 0, 0>>>>, <<1000, Payload(10, 2)>>}

Upd(kind, user, profile, data, text, total, payload) ==
    [kind |-> kind, user |-> user, profile |-> profile, data |-> data,
     text |-> text, total_amount |-> total, invoice_payload |-> payload]

NoUpdate == Upd("", 0, Profile0, NoData, <<>>, 0, NoPayload)

\* The decoded updates. Only start reads the sender's names, so the other
\* kinds carry one profile.
Updates ==
    {Upd("start", u, p, NoData, <<>>, 0, NoPayload) : u \in UserIds, p \in Profiles}
    \cup {Upd(k, u, Profile0, NoData, <<>>, 0, NoPayload) :
            k \in {"stats", "donations"}, u \in UserIds}
    \cup {Upd("pre_checkout", u, Profile0, NoData, <<>>, q[1], q[2]) :
            u \in UserIds, q \in PreCheckouts}
    \cup {Upd("unhandled", ADMIN_USER_ID, Profile0, NoData, <<>>, 0, NoPayload)}
    \cup {Upd("callback", u, Profile0, d, <<>>, 0, NoPayload) :
            u \in UserIds, d \in ButtonData}
    \cup {Upd("text", u, Profile0, NoData, t, 0, NoPayload) :
            u \in UserIds, t \in Texts}
    \cup {Upd("payment", u, Profile0, NoData, <<>>, a, p) :
            u \in UserIds, a \in PaymentTotals, p \in PaymentPayloads}

\* A request body: not JSON at all, JSON that is falsy (empty), JSON that is
\* no update envelope, or an update envelope.
Bodies ==
    {[form |-> f, update |-> NoUpdate] : f \in {"notjson", "empty", "other"}}
    \cup {[form |-> "update", update |-> u] : u \in Updates}

\* ------------------------------------------------------------------ state
VARIABLES
    users,        \* table users: a set of rows
    donations,    \* table donations: rows in insertion order
    user_data,    \* user id -> waiting_for_amount
    calls,        \* webhook calls in flight
    responses,    \* the HTTP response given to each webhook call, by arrival number
    received,     \* webhook calls received so far
    clock,        \* datetime.utcnow()
    dbUp,         \* whether aiosqlite.connect(DB_PATH) succeeds
    lost,         \* users whose waiting_for_amount a restart dropped (history)
    thanked       \* thank-you messages sent so far (history)

vars ==
    <<users, donations, user_data, calls, responses, received, clock, dbUp, lost, thanked>>

\* A call in flight: where it stands, its arrival number, the decoded update,
\* whether its handler raised, what it has sent to the messaging platform,
\* how many SELECT statements it has executed and the row its first SELECT
\* returned.
IdleCall ==
    [pc |-> "idle", n |-> 0, update |-> NoUpdate, failed |-> FALSE, out |-> <<>>,
     reads |-> 0, row |-> <<0, 0>>]

NoResponse == [status |-> 0, form |-> ""]

Init ==
    /\ users = {}
    /\ donations = <<>>
    /\ user_data = [u \in UserIds |-> FALSE]
    /\ calls = [c \in CallIds |-> IdleCall]
    /\ responses = [n \in 1..MaxCalls |-> NoResponse]
    /\ received = 0
    /\ clock = 0
    /\ dbUp = TRUE
    /\ lost = {}
    /\ thanked = 0

Cur(c) == calls[c].update

AtDispatch(c, kind) == calls[c].pc = "dispatch" /\ Cur(c).kind = kind

\* The handler goes on to pc, having sent msgs.
Goto(c, pc, msgs) == calls' = [calls EXCEPT ![c].pc = pc, ![c].out = @ \o msgs]

\* The handler raised after sending msgs: the rest of it does not run.
Raise(c, msgs) ==
    calls' = [calls EXCEPT ![c].pc = "return", ![c].failed = TRUE, ![c].out = @ \o msgs]

\* --------------------------------------------------------------- database
\* `x or ''`
OrEmpty(x) == IF x = None THEN "" ELSE x

HasUser(tbl, user_id) == \E r \in tbl : r.user_id = user_id

\* Faulty variant of log_user: INSERT OR REPLACE, the row is rewritten on
\* every contact.
log_user_replace(tbl, user_id, profile, now) ==
    {r \in tbl : r.user_id # user_id}
    \cup {[user_id |-> user_id,
           username |-> OrEmpty(profile.username),
           first_name |-> OrEmpty(profile.first_name),
           last_name |-> OrEmpty(profile.last_name),
           first_seen |-> now]}

\* Faulty variant of log_user: ON CONFLICT DO UPDATE, the names of an existing
\* row follow the latest contact and only first_seen is kept.
log_user_upsert(tbl, user_id, profile, now) ==
    {r \in tbl : r.user_id # user_id}
    \cup {[user_id |-> user_id,
           username |-> OrEmpty(profile.username),
           first_name |-> OrEmpty(profile.first_name),
           last_name |-> OrEmpty(profile.last_name),
           first_seen |-> IF HasUser(tbl, user_id)
                          THEN (CHOOSE r \in tbl : r.user_id = user_id).first_seen
                          ELSE now]}

\* INSERT OR IGNORE INTO users
log_user(tbl, user_id, profile, now) ==
    IF HasUser(tbl, user_id) THEN tbl
    ELSE tbl \cup {[user_id |-> user_id,
                    username |-> OrEmpty(profile.username),
                    first_name |-> OrEmpty(profile.first_name),
                    last_name |-> OrEmpty(profile.last_name),
                    first_seen |-> now]}

RECURSIVE MaxId(_)
MaxId(tbl) ==
    IF tbl = <<>> THEN 0
    ELSE LET m == MaxId(Tail(tbl)) IN IF Head(tbl).id > m THEN Head(tbl).id ELSE m

\* Faulty variant of log_donation: INSERT OR REPLACE with one row per user,
\* an earlier donation of the user is deleted.
log_donation_per_user(tbl, user_id, amount, payload, now) ==
    LET other(r) == r.user_id # user_id
    IN  Append(SelectSeq(tbl, other),
               [id |-> MaxId(tbl) + 1, user_id |-> user_id, amount |-> amount,
                payload |-> payload, timestamp |-> now])

\* Faulty variant of log_donation: INSERT OR IGNORE under a UNIQUE (user_id,
\* amount, payload) constraint, a repeated notification adds no row.
log_donation_unique(tbl, user_id, amount, payload, now) ==
    IF \E i \in 1..Len(tbl) :
            /\ tbl[i].user_id = user_id
            /\ tbl[i].amount = amount
            /\ tbl[i].payload = payload
    THEN tbl
    ELSE Append(tbl, [id |-> MaxId(tbl) + 1, user_id |-> user_id, amount |-> amount,
                      payload |-> payload, timestamp |-> now])

\* Faulty variant of log_donation: a payload already in the ledger is not
\* recorded again.
log_donation_once(tbl, user_id, amount, payload, now) ==
    IF \E i \in 1..Len(tbl) : tbl[i].payload = payload THEN tbl
    ELSE Append(tbl, [id |-> MaxId(tbl) + 1, user_id |-> user_id, amount |-> amount,
                      payload |-> payload, timestamp |-> now])

\* INSERT INTO donations: id INTEGER PRIMARY KEY AUTOINCREMENT
log_donation(tbl, user_id, amount, payload, now) ==
    Append(tbl, [id |-> MaxId(tbl) + 1, user_id |-> user_id, amount |-> amount,
                 payload |-> payload, timestamp |-> now])

RECURSIVE SumAmounts(_)
SumAmounts(tbl) ==
    IF tbl = <<>> THEN 0 ELSE Head(tbl).amount + SumAmounts(Tail(tbl))

\* SELECT COUNT(*), COALESCE(SUM(amount),0) FROM donations
donation_totals(dtbl) == <<Len(dtbl), SumAmounts(dtbl)>>

\* Faulty variant of get_stats: the two donation figures change places.
get_stats_swapped(utbl, row) == <<Cardinality(utbl), row[1], row[2]>>

\* total_donations, total_stars = row; SELECT COUNT(*) FROM users;
\* return total_users, total_stars, total_donations
get_stats(utbl, row) == <<Cardinality(utbl), row[2], row[1]>>

\* d.* LEFT JOIN users u ON d.user_id = u.user_id
Joined(utbl, d) ==
    LET found == HasUser(utbl, d.user_id)
        u == CHOOSE r \in utbl : r.user_id = d.user_id
    IN  [id |-> d.id, user_id |-> d.user_id, amount |-> d.amount,
         payload |-> d.payload, timestamp |-> d.timestamp,
         username |-> IF found THEN u.username ELSE None,
         first_name |-> IF found THEN u.first_name ELSE None]

Remove(tbl, i) == SubSeq(tbl, 1, i - 1) \o SubSeq(tbl, i + 1, Len(tbl))

\* Faulty variant of get_last_donations: ORDER BY d.id without DESC, the
\* oldest rows come first.
RECURSIVE get_last_donations_asc(_, _, _)
get_last_donations_asc(utbl, dtbl, limit) ==
    IF limit = 0 \/ dtbl = <<>> THEN <<>>
    ELSE LET i == CHOOSE j \in 1..Len(dtbl) :
                      \A k \in 1..Len(dtbl) : dtbl[k].id >= dtbl[j].id
         IN  <<Joined(utbl, dtbl[i])>>
             \o get_last_donations_asc(utbl, Remove(dtbl, i), limit - 1)

\* ORDER BY d.id DESC LIMIT ?
RECURSIVE get_last_donations(_, _, _)
get_last_donations(utbl, dtbl, limit) ==
    IF limit = 0 \/ dtbl = <<>> THEN <<>>
    ELSE LET i == CHOOSE j \in 1..Len(dtbl) :
                      \A k \in 1..Len(dtbl) : dtbl[k].id <= dtbl[j].id
         IN  <<Joined(utbl, dtbl[i])>>
             \o get_last_donations(utbl, Remove(dtbl, i), limit - 1)

\* ------------------------------------------------------ outbound messages
Msg(kind, chat, amount, price, payload, totals, lines) ==
    [kind |-> kind, chat |-> chat, amount |-> amount, price |-> price,
     payload |-> payload, totals |-> totals, lines |-> lines]

\* reply_text / edit_message_text / answer with a fixed text
Reply(kind, chat) == Msg(kind, chat, 0, 0, NoPayload, <<0, 0, 0>>, <<>>)

\* Faulty variant of send_invoice: the price is the amount itself.
send_invoice_stars(chat_id, amount, user_id) ==
    Msg("invoice", chat_id, amount, amount, Payload(amount, user_id), <<0, 0, 0>>, <<>>)

\* context.bot.send_invoice(...)
send_invoice(chat_id, amount, user_id) ==
    Msg("invoice", chat_id, amount, amount * StarsMinorUnits,
        Payload(amount, user_id), <<0, 0, 0>>, <<>>)


\* ---------------------------------------------------------------- handlers
\* start, lines 107-108: await log_user(user)
start(c) ==
    /\ AtDispatch(c, "start")
    /\ IF dbUp
       THEN /\ users' = log_user(users, Cur(c).user, Cur(c).profile, clock)
            /\ clock' = clock + 1
            /\ Goto(c, "start_reply", <<>>)
       ELSE /\ Raise(c, <<>>)
            /\ UNCHANGED <<users, clock>>
    /\ UNCHANGED <<donations, user_data, responses, received, dbUp, lost, thanked>>

\* start, lines 110-119: the keyboard (1 / 10 / 100 / custom) is sent
start_reply(c) ==
    /\ calls[c].pc = "start_reply"
    /\ Goto(c, "return", <<Reply("menu", Cur(c).user)>>)
    /\ UNCHANGED <<users, donations, user_data, responses, received, clock, dbUp, lost, thanked>>

\* button: query.answer(), then the branch taken on query.data
button_messages(user, data) ==
    <<Reply("answer_callback", user)>>
    \o (IF data.head = "donate"
        THEN IF ParseInt(data.arg).ok
             THEN <<send_invoice(user, ParseInt(data.arg).value, user)>>
             ELSE <<>>
        ELSE IF data.head = "custom" THEN <<Reply("prompt", user)>> ELSE <<>>)

\* Faulty variant of button_waiting: a fixed-amount press clears the flag.
button_waiting_reset(waiting, data) == data.head = "custom"

\* button: context.user_data['waiting_for_amount'] after the handler
button_waiting(waiting, data) ==
    IF data.head = "donate" THEN waiting
    ELSE IF data.head = "custom" THEN TRUE ELSE waiting

button(c) ==
    LET user == Cur(c).user
        data == Cur(c).data
    IN  /\ AtDispatch(c, "callback")
        /\ user_data' = [user_data EXCEPT ![user] = button_waiting(@, data)]
        /\ IF data.head = "donate" /\ ~ParseInt(data.arg).ok
           THEN Raise(c, button_messages(user, data))
           ELSE Goto(c, "return", button_messages(user, data))
        /\ lost' = IF data.head = "custom" THEN lost \ {user} ELSE lost
        /\ UNCHANGED <<users, donations, responses, received, clock, dbUp, thanked>>

\* handle_message, entered with waiting_for_amount set: what is sent
handle_message_messages(user, text) ==
    LET amount == ParseInt(text)
    IN  IF ~amount.ok THEN <<Reply("not_a_number", user)>>
        ELSE IF amount.value < 1 THEN <<Reply("too_small", user)>>
        ELSE <<send_invoice(user, amount.value, user)>>

\* Faulty variant of handle_message_waiting: the flag is cleared whatever the
\* text was.
handle_message_waiting_cleared(text) == FALSE

\* Faulty variant of handle_message_waiting: the flag is never cleared.
handle_message_waiting_kept(text) == TRUE

\* handle_message, entered with waiting_for_amount set: the flag afterwards
handle_message_waiting(text) ==
    LET amount == ParseInt(text)
    IN  IF ~amount.ok THEN TRUE
        ELSE IF amount.value < 1 THEN TRUE
        ELSE FALSE

\* Faulty variant of waiting_for_amount: the flag is not consulted.
waiting_for_amount_any(data, user) == TRUE

\* context.user_data.get('waiting_for_amount')
waiting_for_amount(data, user) == data[user]

handle_message(c) ==
    LET user == Cur(c).user
        text == Cur(c).text
    IN  /\ AtDispatch(c, "text")
        /\ IF waiting_for_amount(user_data, user)
           THEN /\ Goto(c, "return", handle_message_messages(user, text))
                /\ user_data' = [user_data EXCEPT ![user] = handle_message_waiting(text)]
           ELSE /\ Goto(c, "return", <<>>)
                /\ UNCHANGED user_data
        /\ UNCHANGED <<users, donations, responses, received, clock, dbUp, lost, thanked>>

\* Faulty variant of precheckout_answer: a total below one star is refused.
precheckout_answer_checked(update) ==
    IF update.total_amount >= StarsMinorUnits
    THEN Reply("pre_checkout_ok", update.user)
    ELSE Reply("pre_checkout_refused", update.user)

\* update.pre_checkout_query.answer(ok=True)
precheckout_answer(update) == Reply("pre_checkout_ok", update.user)

precheckout(c) ==
    /\ AtDispatch(c, "pre_checkout")
    /\ Goto(c, "return", <<precheckout_answer(Cur(c))>>)
    /\ UNCHANGED <<users, donations, user_data, responses, received, clock, dbUp, lost, thanked>>

\* payment.total_amount // 100
StarsOf(total_amount) == total_amount \div StarsMinorUnits

\* Faulty variant of successful_payment: a failure of log_donation is
\* swallowed and the handler goes on to the thank-you.
successful_payment_unguarded(c) ==
    /\ AtDispatch(c, "payment")
    /\ IF dbUp
       THEN /\ donations' = log_donation(donations, Cur(c).user,
                                         StarsOf(Cur(c).total_amount),
                                         Cur(c).invoice_payload, clock)
            /\ clock' = clock + 1
       ELSE UNCHANGED <<donations, clock>>
    /\ Goto(c, "payment_reply", <<>>)
    /\ UNCHANGED <<users, user_data, responses, received, dbUp, lost, thanked>>

\* successful_payment, lines 170-175: await log_donation(user_id, amount, payload)
successful_payment(c) ==
    /\ AtDispatch(c, "payment")
    /\ IF dbUp
       THEN /\ donations' = log_donation(donations, Cur(c).user,
                                         StarsOf(Cur(c).total_amount),
                                         Cur(c).invoice_payload, clock)
            /\ clock' = clock + 1
            /\ Goto(c, "payment_reply", <<>>)
       ELSE /\ Raise(c, <<>>)
            /\ UNCHANGED <<donations, clock>>
    /\ UNCHANGED <<users, user_data, responses, received, dbUp, lost, thanked>>

\* successful_payment, lines 177-181: the thank-you
successful_payment_reply(c) ==
    /\ calls[c].pc = "payment_reply"
    /\ Goto(c, "return",
            <<Msg("thanks", Cur(c).user, StarsOf(Cur(c).total_amount), 0, NoPayload,
                  <<0, 0, 0>>, <<>>)>>)
    /\ thanked' = thanked + 1
    /\ UNCHANGED <<users, donations, user_data, responses, received, clock, dbUp, lost>>

\* Faulty variant of is_admin: the identity is not compared.
is_admin_any(user) == TRUE

\* update.effective_user.id != ADMIN_USER_ID decides who gets the report
is_admin(user) == user = ADMIN_USER_ID

\* The handler executed k SELECT statements.
Select(c, k) == [calls EXCEPT ![c].reads = @ + k]

\* stats, and get_stats up to its first SELECT
stats(c) ==
    /\ AtDispatch(c, "stats")
    /\ IF ~is_admin(Cur(c).user)
       THEN Goto(c, "return", <<Reply("admin_only", Cur(c).user)>>)
       ELSE IF dbUp
       THEN calls' = [Select(c, 1) EXCEPT
                ![c].pc = "stats_reply",
                ![c].row = donation_totals(donations)]
       ELSE Raise(c, <<>>)
    /\ UNCHANGED <<users, donations, user_data, responses, received, clock, dbUp, lost, thanked>>

\* get_stats from its second SELECT, on the connection it holds, and the reply
stats_reply(c) ==
    /\ calls[c].pc = "stats_reply"
    /\ calls' = [Select(c, 1) EXCEPT
            ![c].pc = "return",
            ![c].out = @ \o <<Msg("stats", Cur(c).user, 0, 0, NoPayload,
                                  get_stats(users, calls[c].row), <<>>)>>]
    /\ UNCHANGED <<users, donations, user_data, responses, received, clock, dbUp, lost, thanked>>

\* One line of the donations report: amount, first name, @username, timestamp
ReportLine(r) ==
    [amount |-> r.amount,
     first_name |-> OrEmpty(r.first_name),
     username |-> OrEmpty(r.username),
     timestamp |-> r.timestamp]

ReportLines(rows) == [i \in 1..Len(rows) |-> ReportLine(rows[i])]

donations_cmd(c) ==
    /\ AtDispatch(c, "donations")
    /\ IF ~is_admin(Cur(c).user)
       THEN Goto(c, "return", <<Reply("admin_only", Cur(c).user)>>)
       ELSE IF dbUp
       THEN LET rows == get_last_donations(users, donations, ReportLimit)
            IN  calls' = [Select(c, 1) EXCEPT
                    ![c].pc = "return",
                    ![c].out = @ \o <<IF rows = <<>>
                                      THEN Reply("no_donations", Cur(c).user)
                                      ELSE Msg("donations", Cur(c).user, 0, 0,
                                               NoPayload, <<0, 0, 0>>,
                                               ReportLines(rows))>>]
       ELSE Raise(c, <<>>)
    /\ UNCHANGED <<users, donations, user_data, responses, received, clock, dbUp, lost, thanked>>

\* process_update with no handler whose filter matches (another command, an
\* edited message, ...): nothing runs.
no_handler(c) ==
    /\ AtDispatch(c, "unhandled")
    /\ Goto(c, "return", <<>>)
    /\ UNCHANGED <<users, donations, user_data, responses, received, clock, dbUp, lost, thanked>>

\* ------------------------------------------------------------------ webhook
\* The status of a call that never reaches process_update: get_json(force=True)
\* aborts with 400 on a body that is not JSON, `if not json_data: abort(400)`
\* on a falsy one, and Update.de_json raises on JSON that is no update
\* envelope, which the view does not catch: Flask answers 500.
webhook_refusal(form) ==
    IF form = "notjson" THEN 400
    ELSE IF form = "empty" THEN 400
    ELSE 500

\* A call arrives and takes the lowest free slot.
webhook(c, body) ==
    /\ calls[c].pc = "idle"
    /\ \A d \in CallIds : d < c => calls[d].pc # "idle"
    /\ received < MaxCalls
    /\ received' = received + 1
    /\ IF body.form = "update"
       THEN /\ calls' = [calls EXCEPT ![c] = [IdleCall EXCEPT !.pc = "dispatch",
                                              !.n = received + 1,
                                              !.update = body.update]]
            /\ UNCHANGED responses
       ELSE /\ responses' = [responses EXCEPT ![received + 1] =
                    [status |-> webhook_refusal(body.form), form |-> body.form]]
            /\ UNCHANGED calls
    /\ UNCHANGED <<users, donations, user_data, clock, dbUp, lost, thanked>>

\* process_update has returned (it logs and swallows what a handler raised):
\* return 'OK', 200
Respond(c) ==
    /\ calls[c].pc = "return"
    /\ responses' = [responses EXCEPT ![calls[c].n] = [status |-> 200, form |-> "update"]]
    /\ calls' = [calls EXCEPT ![c] = IdleCall]
    /\ UNCHANGED <<users, donations, user_data, received, clock, dbUp, lost, thanked>>

\* -------------------------------------------------------------- environment
\* The process is restarted: user_data lives in the Application object built
\* at import time and is lost, with the calls in flight; the database file
\* stays.
Restart ==
    /\ \/ \E u \in UserIds : user_data[u]
       \/ \E c \in CallIds : calls[c].pc # "idle"
    /\ user_data' = [u \in UserIds |-> FALSE]
    /\ calls' = [c \in CallIds |-> IdleCall]
    /\ lost' = lost \cup {u \in UserIds : user_data[u]}
    /\ UNCHANGED <<users, donations, responses, received, clock, dbUp, thanked>>

\* The storage becomes unavailable, or available again.
StorageFlip ==
    /\ dbUp' = ~dbUp
    /\ UNCHANGED <<users, donations, user_data, calls, responses, received, clock,
                   lost, thanked>>

Next ==
    \/ \E c \in CallIds, body \in Bodies : webhook(c, body)
    \/ \E c \in CallIds : start(c)
    \/ \E c \in CallIds : start_reply(c)
    \/ \E c \in CallIds : button(c)
    \/ \E c \in CallIds : handle_message(c)
    \/ \E c \in CallIds : precheckout(c)
    \/ \E c \in CallIds : successful_payment(c)
    \/ \E c \in CallIds : successful_payment_reply(c)
    \/ \E c \in CallIds : stats(c)
    \/ \E c \in CallIds : stats_reply(c)
    \/ \E c \in CallIds : donations_cmd(c)
    \/ \E c \in CallIds : no_handler(c)
    \/ \E c \in CallIds : Respond(c)
    \/ Restart
    \/ StorageFlip

Spec == Init /\ [][Next]_vars

\* ------------------------------------------------- reports on a given ledger
\* The process starts on a database file that earlier runs have written:
\* /start calls of some users, then confirmed payments in some order.
LedgerAmounts == {5, 7, 9}

Donors == UNION {[1..n -> UserIds \X LedgerAmounts] : n \in 0..MaxRows}

Started(S) ==
    LET first == IF 1 \in S THEN log_user({}, 1, Profile0, 0) ELSE {}
    IN  IF 2 \in S
        THEN log_user(first, 2,
                      [username |-> "ann", first_name |-> "Anna", last_name |-> "Lee"],
                      Cardinality(first))
        ELSE first

RECURSIVE Donated(_, _)
Donated(ds, now) ==
    IF ds = <<>> THEN <<>>
    ELSE LET d == ds[Len(ds)]
         IN  log_donation(Donated(SubSeq(ds, 1, Len(ds) - 1), now), d[1], d[2],
                          Payload(d[2], d[1]), now + Len(ds) - 1)

LedgerInit ==
    /\ \E S \in SUBSET UserIds, ds \in Donors :
            /\ users = Started(S)
            /\ donations = Donated(ds, Cardinality(S))
            /\ clock = Cardinality(S) + Len(ds)
            /\ thanked = Len(ds)
    /\ user_data = [u \in UserIds |-> FALSE]
    /\ calls = [c \in CallIds |-> IdleCall]
    /\ responses = [n \in 1..MaxCalls |-> NoResponse]
    /\ received = 0
    /\ dbUp = TRUE
    /\ lost = {}

\* /stats and /donations, from the administrator and from another user
ReportBodies == {b \in Bodies : b.update.kind \in {"stats", "donations"}}

LedgerNext ==
    \/ \E c \in CallIds, body \in ReportBodies : webhook(c, body)
    \/ \E c \in CallIds : stats(c)
    \/ \E c \in CallIds : stats_reply(c)
    \/ \E c \in CallIds : donations_cmd(c)
    \/ \E c \in CallIds : Respond(c)

LedgerSpec == LedgerInit /\ [][LedgerNext]_vars


\* ------------------------------------------------------------ step vocabulary
\* Call c takes a step of its own (a restart resets n).
Steps(c) == calls'[c].n = calls[c].n /\ calls'[c].pc # calls[c].pc

\* The handler for an update of this kind runs for call c.
Handles(c, kind) == AtDispatch(c, kind) /\ Steps(c)

\* The handler ran to its end without raising.
Completes(c) == calls'[c].pc = "return" /\ ~calls'[c].failed

\* What call c sends in this step.
Sends(c) ==
    SubSeq(calls'[c].out, Len(calls[c].out) + 1, Len(calls'[c].out))

IsInvoice(m) == m.kind = "invoice"

Invoices(msgs) == SelectSeq(msgs, IsInvoice)

\* An invoice request for amount stars (amount * 100 minor units) sent to the
\* user and carrying the payload donation_<amount>_<user>.
InvoiceFor(amount, user) ==
    [kind |-> "invoice", chat |-> user, amount |-> amount, price |-> amount * 100,
     payload |-> <<"donation", amount, user>>, totals |-> <<0, 0, 0>>, lines |-> <<>>]

IsValidation(m, user) ==
    m.chat = user /\ m.kind \in {"not_a_number", "too_small"}

LedgerUnchanged == users' = users /\ donations' = donations

\* The text is not an integer, or an integer below 1.
InvalidAmount(text) == ~ParseInt(text).ok \/ ParseInt(text).value < 1

ValidAmount(text) == ParseInt(text).ok /\ ParseInt(text).value >= 1

\* -------------------------------------------------------------------- claims
\* C1 as stated: one text message that is no integer, or an integer below 1,
\* from a user in AWAITING_AMOUNT sends a validation reply, issues no invoice
\* request and leaves the user in IDLE.
C1_InvalidAmountReturnsToIdle ==
    [][\A c \in CallIds :
        (Handles(c, "text") /\ user_data[Cur(c).user] /\ InvalidAmount(Cur(c).text))
        => /\ Completes(c)
           /\ Len(Sends(c)) = 1
           /\ IsValidation(Sends(c)[1], Cur(c).user)
           /\ ~user_data'[Cur(c).user]]_vars

\* C1 amended: the same message sends one validation reply, issues no invoice
\* request, changes nothing in the ledger and leaves the user in
\* AWAITING_AMOUNT.
C1_InvalidAmountKeepsAwaiting ==
    [][\A c \in CallIds :
        (Handles(c, "text") /\ user_data[Cur(c).user] /\ InvalidAmount(Cur(c).text))
        => /\ Completes(c)
           /\ Len(Sends(c)) = 1
           /\ IsValidation(Sends(c)[1], Cur(c).user)
           /\ Invoices(Sends(c)) = <<>>
           /\ LedgerUnchanged
           /\ user_data' = user_data]_vars

\* C1 witness: a text that is no valid amount has been answered with a
\* validation reply and its sender is still awaiting an amount.
C1_Witness ==
    \E c \in CallIds :
        /\ calls[c].pc = "return"
        /\ Cur(c).kind = "text"
        /\ InvalidAmount(Cur(c).text)
        /\ Len(calls[c].out) = 1
        /\ IsValidation(calls[c].out[1], Cur(c).user)
        /\ user_data[Cur(c).user]

\* C2: pressing "custom" puts the user in AWAITING_AMOUNT and issues no
\* invoice; a text message processed in AWAITING_AMOUNT that parses as an
\* integer N >= 1 issues exactly one invoice request, for N and for that user,
\* and returns the user to IDLE.
C2_CustomThenAmount ==
    [][\A c \in CallIds :
        /\ (Handles(c, "callback") /\ Cur(c).data.head = "custom")
           => /\ Completes(c)
              /\ user_data'[Cur(c).user]
              /\ Invoices(Sends(c)) = <<>>
        /\ (Handles(c, "text") /\ user_data[Cur(c).user] /\ ValidAmount(Cur(c).text))
           => /\ Completes(c)
              /\ Sends(c) = <<InvoiceFor(ParseInt(Cur(c).text).value, Cur(c).user)>>
              /\ ~user_data'[Cur(c).user]]_vars

\* C2 witness: the text " 50" has been answered with the invoice for 50 stars
\* and its sender is back in IDLE.
C2_Witness ==
    \E c \in CallIds :
        /\ calls[c].pc = "return"
        /\ Cur(c).kind = "text"
        /\ Cur(c).text = <<" ", "5", "0">>
        /\ calls[c].out = <<InvoiceFor(50, Cur(c).user)>>
        /\ ~user_data[Cur(c).user]

\* /start, first step: with the storage available the user has exactly one
\* row afterwards and a row that existed is not modified.
StartRecords(c) ==
    Handles(c, "start")
    => /\ dbUp => /\ calls'[c].pc = "start_reply"
                  /\ Cardinality({r \in users' : r.user_id = Cur(c).user}) = 1
                  /\ users \subseteq users'
       /\ donations' = donations
       /\ Sends(c) = <<>>

\* /start, second step: the donation menu is sent to the user.
StartPresents(c) ==
    (calls[c].pc = "start_reply" /\ Steps(c))
    => /\ Completes(c)
       /\ Sends(c) = <<Reply("menu", Cur(c).user)>>
       /\ LedgerUnchanged

StartSteps(c) == Steps(c) /\ (AtDispatch(c, "start") \/ calls[c].pc = "start_reply")

\* C3 as stated: /start from any conversation state records the user (upsert),
\* presents the menu and leaves the user in IDLE.
C3_StartLeavesIdle ==
    [][\A c \in CallIds :
        /\ StartRecords(c)
        /\ StartPresents(c)
        /\ StartSteps(c) => ~user_data'[Cur(c).user]]_vars

\* C3 amended: /start from any conversation state records the user (upsert,
\* when the storage accepts the write), presents the menu and leaves the
\* conversation state as it was: a user in AWAITING_AMOUNT stays there.
C3_StartKeepsState ==
    [][\A c \in CallIds :
        /\ StartRecords(c)
        /\ StartPresents(c)
        /\ StartSteps(c) => user_data' = user_data]_vars

\* C3 witness: /start has been processed to its end for a user who is in
\* AWAITING_AMOUNT: the user has a row and was sent the menu.
C3_Witness ==
    \E c \in CallIds :
        /\ calls[c].pc = "return"
        /\ Cur(c).kind = "start"
        /\ calls[c].out = <<Reply("menu", Cur(c).user)>>
        /\ HasUser(users, Cur(c).user)
        /\ user_data[Cur(c).user]

\* The amount a fixed menu choice stands for.
FixedAmount(data) ==
    IF data.arg = <<"1">> THEN 1
    ELSE IF data.arg = <<"1", "0">> THEN 10
    ELSE 100

\* A fixed-amount press issues exactly one invoice request, for that amount
\* and for the pressing user.
FixedChoiceInvoices(c) ==
    /\ Completes(c)
    /\ Invoices(Sends(c)) = <<InvoiceFor(FixedAmount(Cur(c).data), Cur(c).user)>>
    /\ LedgerUnchanged

\* C4 as stated: a fixed-amount menu choice N from any conversation state
\* issues exactly one invoice request for N for the pressing user and leaves
\* that user in IDLE.
C4_FixedChoiceLeavesIdle ==
    [][\A c \in CallIds :
        (Handles(c, "callback") /\ Cur(c).data.head = "donate")
        => FixedChoiceInvoices(c) /\ ~user_data'[Cur(c).user]]_vars

\* C4 amended: a fixed-amount menu choice N from any conversation state issues
\* exactly one invoice request for N for the pressing user and leaves the
\* conversation state as it was: a user in AWAITING_AMOUNT stays there.
C4_FixedChoiceKeepsState ==
    [][\A c \in CallIds :
        (Handles(c, "callback") /\ Cur(c).data.head = "donate")
        => FixedChoiceInvoices(c) /\ user_data' = user_data]_vars

\* C4 witness: the choice "10 Stars" has been answered with the invoice for
\* 10 stars while the pressing user is in AWAITING_AMOUNT.
C4_Witness ==
    \E c \in CallIds :
        /\ calls[c].pc = "return"
        /\ Cur(c).kind = "callback"
        /\ Cur(c).data = [head |-> "donate", arg |-> <<"1", "0">>]
        /\ Invoices(calls[c].out) = <<InvoiceFor(10, Cur(c).user)>>
        /\ user_data[Cur(c).user]

\* C5: a text message from a user in IDLE, a user whose AWAITING_AMOUNT was
\* lost by a restart included, is a no-op: nothing is sent, no invoice is
\* requested, the ledger is neither read nor written and the user stays in
\* IDLE.
C5_IdleTextIsNoOp ==
    [][\A c \in CallIds :
        (Handles(c, "text") /\ ~user_data[Cur(c).user])
        => /\ Completes(c)
           /\ Sends(c) = <<>>
           /\ calls'[c].reads = 0
           /\ LedgerUnchanged
           /\ user_data' = user_data]_vars

\* C5 witness: a text that would have been a valid amount was processed for
\* a user whose AWAITING_AMOUNT a restart had dropped, and nothing was sent.
C5_Witness ==
    \E c \in CallIds :
        /\ calls[c].pc = "return"
        /\ Cur(c).kind = "text"
        /\ ValidAmount(Cur(c).text)
        /\ Cur(c).user \in lost
        /\ calls[c].out = <<>>
        /\ ~user_data[Cur(c).user]

\* C6: a confirmed-payment notification, whether or not an invoice request
\* for its payload was ever issued, appends exactly one donation row (the
\* storage accepting the write) that carries the paying user's id, the
\* confirmed amount and the confirmed payload, and neither step of the
\* handler changes the conversation state.
C6_PaymentAppendsDonation ==
    [][\A c \in CallIds :
        /\ Handles(c, "payment")
           => /\ dbUp =>
                  /\ calls'[c].pc = "payment_reply"
                  /\ Len(donations') = Len(donations) + 1
                  /\ SubSeq(donations', 1, Len(donations)) = donations
                  /\ donations'[Len(donations')].user_id = Cur(c).user
                  /\ donations'[Len(donations')].amount = Cur(c).total_amount \div 100
                  /\ donations'[Len(donations')].payload = Cur(c).invoice_payload
              /\ user_data' = user_data
        /\ (calls[c].pc = "payment_reply" /\ Steps(c))
           => /\ donations' = donations
              /\ user_data' = user_data]_vars

\* C6 witness: the only webhook call ever received is a payment notification,
\* so no invoice was ever requested, and its donation is in the ledger.
C6_Witness ==
    \E c \in CallIds :
        /\ received = 1
        /\ calls[c].pc = "payment_reply"
        /\ Len(donations) = 1
        /\ donations[1].user_id = Cur(c).user
        /\ donations[1].payload = Cur(c).invoice_payload
        /\ donations[1].amount = 10

\* C7: every row of the donations ledger has an amount of at least 1.
C7_AmountsPositive ==
    \A i \in 1..Len(donations) : donations[i].amount >= 1

\* C8: a stats or donations command from anyone but the administrator
\* executes no statement on the ledger, sends exactly the fixed denial, and
\* changes neither the ledger nor the conversation state.
C8_NonAdminReportDenied ==
    [][\A c \in CallIds :
        ((Handles(c, "stats") \/ Handles(c, "donations"))
            /\ Cur(c).user # ADMIN_USER_ID)
        => /\ Completes(c)
           /\ calls'[c].reads = 0
           /\ Sends(c) = <<Reply("admin_only", Cur(c).user)>>
           /\ LedgerUnchanged
           /\ user_data' = user_data]_vars

\* C8 witness: with a donation in the ledger, a report command of a user who
\* is not the administrator has been answered with the denial alone.
C8_Witness ==
    \E c \in CallIds :
        /\ calls[c].pc = "return"
        /\ Cur(c).kind \in {"stats", "donations"}
        /\ Cur(c).user # ADMIN_USER_ID
        /\ calls[c].out = <<Reply("admin_only", Cur(c).user)>>
        /\ calls[c].reads = 0
        /\ donations # <<>>

\* C9: a webhook call whose body is empty or is no event envelope is answered
\* with status 400 (and is never dispatched).
C9_BadBodyIs400 ==
    \A n \in 1..MaxCalls :
        responses[n].form \in {"notjson", "empty", "other"}
        => responses[n].status = 400

\* C10: a decoded event is acknowledged with 200 as soon as it is handed to
\* the dispatch: no call still has handler work (sends, ledger writes) ahead
\* of it without having been answered 200.
C10_AcknowledgedBeforeWork ==
    \A c \in CallIds :
        calls[c].pc \in {"dispatch", "start_reply", "payment_reply", "stats_reply"}
        => responses[calls[c].n].status = 200

\* The HTTP response of call c is given in this step.
Responds(c) ==
    /\ calls[c].pc = "return"
    /\ calls'[c].pc = "idle"
    /\ responses'[calls[c].n] # responses[calls[c].n]

\* C11: a call whose handler raised while the event was dispatched (the
\* storage refusing a ledger write included) is answered with status 500.
C11_DispatchFailureIs500 ==
    [][\A c \in CallIds :
        (Responds(c) /\ calls[c].failed) => responses'[calls[c].n].status = 500]_vars

\* The users row a first contact creates: the sender's names, '' for a name
\* the sender does not have, and the time of the call.
FirstContactRow(update, now) ==
    [user_id |-> update.user,
     username |-> IF update.profile.username = None THEN "" ELSE update.profile.username,
     first_name |-> IF update.profile.first_name = None THEN ""
                    ELSE update.profile.first_name,
     last_name |-> IF update.profile.last_name = None THEN ""
                   ELSE update.profile.last_name,
     first_seen |-> now]

\* C12: whatever calls overlap, a user_id never has more than one users row
\* and no step changes or removes a row; a log_user call for a user without a
\* row adds the row of that call, a call for a user with a row changes nothing
\* and raises nothing (the storage being available).
C12_FirstContactWins ==
    [][/\ users \subseteq users'
       /\ \A u \in UserIds : Cardinality({r \in users' : r.user_id = u}) <= 1
       /\ \A c \in CallIds :
            (Handles(c, "start") /\ dbUp)
            => /\ calls'[c].pc = "start_reply"
               /\ ~calls'[c].failed
               /\ IF \E r \in users : r.user_id = Cur(c).user
                  THEN users' = users
                  ELSE users' = users \cup {FirstContactRow(Cur(c), clock)}]_vars

\* C12 witness: two /start calls of one user with different names overlap,
\* both have logged the user, and the one row carries names that are not
\* those of the later call.
C12_Witness ==
    \E c, d \in CallIds :
        /\ c # d
        /\ calls[c].pc \in {"start_reply", "return"} /\ ~calls[c].failed
        /\ calls[d].pc \in {"start_reply", "return"} /\ ~calls[d].failed
        /\ Cur(c).kind = "start" /\ Cur(d).kind = "start"
        /\ Cur(c).user = Cur(d).user
        /\ Cur(c).profile # Cur(d).profile
        /\ users = {FirstContactRow(Cur(c), 0)}

\* C13: the donations ledger is append-only with strictly increasing ids: in
\* every step the rows that were there stay as they were, in place, and a row
\* that is added carries an id greater than the id of every row before it.
C13_DonationsAppendOnly ==
    [][/\ Len(donations') >= Len(donations)
       /\ SubSeq(donations', 1, Len(donations)) = donations
       /\ \A i \in (Len(donations) + 1)..Len(donations') :
            \A j \in 1..(i - 1) : donations'[j].id < donations'[i].id]_vars

\* C13 witness: one user has donated twice; both rows are in the ledger, the
\* later one with the greater id.
C13_Witness ==
    /\ Len(donations) = 2
    /\ donations[1].user_id = donations[2].user_id
    /\ donations[1].id < donations[2].id

\* The sum of the amounts of the first k rows.
RECURSIVE AmountOfFirst(_, _)
AmountOfFirst(tbl, k) ==
    IF k = 0 THEN 0 ELSE AmountOfFirst(tbl, k - 1) + tbl[k].amount

\* The administrator's /stats reply is sent by call c in this step.
StatsReplies(c) == calls[c].pc = "stats_reply" /\ Steps(c)

\* C14: on any ledger the totals the administrator is sent are (number of
\* users rows, sum of the amounts of all donation rows, number of donation
\* rows); on an empty ledger they are (0, 0, 0).
C14_TotalsOfLedger ==
    [][\A c \in CallIds :
        StatsReplies(c)
        => /\ Completes(c)
           /\ Len(Sends(c)) = 1
           /\ Sends(c)[1].kind = "stats"
           /\ Sends(c)[1].totals =
                <<Cardinality(users), AmountOfFirst(donations, Len(donations)),
                  Len(donations)>>
           /\ (users = {} /\ donations = <<>>) => Sends(c)[1].totals = <<0, 0, 0>>]_vars

\* C14 witness: on a ledger with one user and the donations 5, 7 and 9 the
\* administrator has been sent the totals (1, 21, 3).
C14_Witness ==
    \E c \in CallIds :
        /\ calls[c].pc = "return"
        /\ Cur(c).kind = "stats"
        /\ Len(calls[c].out) = 1
        /\ calls[c].out[1].totals = <<1, 21, 3>>
        /\ Cardinality(users) = 1
        /\ [i \in 1..Len(donations) |-> donations[i].amount] = <<5, 7, 9>>

\* rows are limit-many of the donations of the ledger, or all of them if there
\* are fewer: those with the highest ids, highest first, each with the names
\* of its user's row, or no names where the user has no row.
IsRecent(rows, limit) ==
    /\ Len(rows) = IF limit < Len(donations) THEN limit ELSE Len(donations)
    /\ \A i \in 1..Len(rows) :
        /\ \E k \in 1..Len(donations) :
            /\ donations[k].id = rows[i].id
            /\ donations[k].user_id = rows[i].user_id
            /\ donations[k].amount = rows[i].amount
            /\ donations[k].payload = rows[i].payload
            /\ donations[k].timestamp = rows[i].timestamp
        /\ \A u \in users :
            u.user_id = rows[i].user_id
            => rows[i].username = u.username /\ rows[i].first_name = u.first_name
        /\ (\A u \in users : u.user_id # rows[i].user_id)
            => rows[i].username = None /\ rows[i].first_name = None
        /\ \A j \in 1..(i - 1) : rows[j].id > rows[i].id
    /\ \A k \in 1..Len(donations) :
        (\A i \in 1..Len(rows) : rows[i].id # donations[k].id)
        => \A i \in 1..Len(rows) : donations[k].id < rows[i].id

\* The administrator's /donations command has been answered by call c.
Reported(c) ==
    /\ calls[c].pc = "return"
    /\ Cur(c).kind = "donations"
    /\ Cur(c).user = ADMIN_USER_ID
    /\ ~calls[c].failed

\* C15: on any ledger and for any limit, get_last_donations returns
\* min(limit, number of donations) rows, the donations with the highest ids in
\* descending id order, and a donation whose user has no users row is among
\* them with empty name fields; the administrator's report lists them in that
\* order, newest first, with '' for the names of such a donation.
C15_RecentDonations ==
    /\ \A limit \in 0..MaxLimit :
        IsRecent(get_last_donations(users, donations, limit), limit)
    /\ \A c \in CallIds :
        (Reported(c) /\ donations # <<>>)
        => /\ Len(calls[c].out) = 1
           /\ LET lines == calls[c].out[1].lines
                  n == Len(donations)
              IN  /\ Len(lines) = n
                  /\ \A i \in 1..n :
                        /\ lines[i].amount = donations[n + 1 - i].amount
                        /\ lines[i].timestamp = donations[n + 1 - i].timestamp
                        /\ ~HasUser(users, donations[n + 1 - i].user_id)
                            => lines[i].first_name = "" /\ lines[i].username = ""

\* C15 witness: the ledger holds the donations 5, 7 and 9, the last of them
\* from a user without a users row; a limit of 2 returns the rows of 9 and 7,
\* the first without names, and the administrator's report lists 9, 7, 5.
C15_Witness ==
    \E c \in CallIds :
        /\ Reported(c)
        /\ [i \in 1..Len(donations) |-> donations[i].amount] = <<5, 7, 9>>
        /\ ~HasUser(users, donations[3].user_id)
        /\ HasUser(users, donations[2].user_id)
        /\ LET rows == get_last_donations(users, donations, 2)
           IN  /\ [i \in 1..Len(rows) |-> rows[i].amount] = <<9, 7>>
               /\ rows[1].first_name = None
               /\ rows[2].first_name # None
        /\ [i \in 1..3 |-> calls[c].out[1].lines[i].amount] = <<9, 7, 5>>
        /\ calls[c].out[1].lines[1].first_name = ""

\* C16: when the handler of a /start, a menu button, a text message, a
\* confirmed payment, /stats or /donations has processed an event of user u,
\* the users table holds a row for u.
C16_EveryHandlerRecordsUser ==
    [][\A c \in CallIds :
        (/\ Steps(c)
         /\ Completes(c)
         /\ Cur(c).kind \in {"start", "callback", "text", "payment", "stats", "donations"})
        => HasUser(users', Cur(c).user)]_vars

\* The ledger append of a confirmed-payment notification runs for call c.
Appends(c) == Handles(c, "payment") /\ dbUp

\* C17: whatever calls overlap, every step changes the number of donation
\* rows by exactly the number of confirmed-payment notifications whose append
\* ran in it (the storage accepting the write), and an append adds the row of
\* its own notification even when an equal row is already there.
C17_NoAppendLost ==
    [][/\ (\A c \in CallIds : ~Appends(c)) => Len(donations') = Len(donations)
       /\ \A c \in CallIds :
            Appends(c)
            => /\ Len(donations') = Len(donations) + 1
               /\ donations'[Len(donations')].user_id = Cur(c).user
               /\ donations'[Len(donations')].payload = Cur(c).invoice_payload
               /\ ~calls'[c].failed]_vars

\* C17 witness: two notifications of one user with the same total and the same
\* payload are in flight together, both past their append, and the ledger
\* holds two rows that differ in id and timestamp only.
C17_Witness ==
    \E c, d \in CallIds :
        /\ c # d
        /\ Cur(c) = Cur(d)
        /\ Cur(c).kind = "payment"
        /\ calls[c].pc \in {"payment_reply", "return"} /\ ~calls[c].failed
        /\ calls[d].pc \in {"payment_reply", "return"} /\ ~calls[d].failed
        /\ Len(donations) = 2
        /\ donations[1].user_id = donations[2].user_id
        /\ donations[1].amount = donations[2].amount
        /\ donations[1].payload = donations[2].payload
        /\ donations[1].id # donations[2].id

\* C18: a pre-checkout query is answered with the approval and nothing else,
\* whatever the conversation state of its user, its amount and its payload,
\* and the handler changes neither the conversation state nor the ledger.
C18_PreCheckoutApproved ==
    [][\A c \in CallIds :
        Handles(c, "pre_checkout")
        => /\ Completes(c)
           /\ Len(Sends(c)) = 1
           /\ Sends(c)[1].kind = "pre_checkout_ok"
           /\ Sends(c)[1].chat = Cur(c).user
           /\ calls'[c].reads = 0
           /\ LedgerUnchanged
           /\ user_data' = user_data]_vars

\* C18 witness: the query of a user in AWAITING_AMOUNT for a total below one
\* star, with a payload no invoice of the bot carries, has been approved.
C18_Witness ==
    \E c \in CallIds :
        /\ calls[c].pc = "return"
        /\ Cur(c).kind = "pre_checkout"
        /\ Cur(c).total_amount = 50
        /\ Cur(c).invoice_payload = <<"gift", 0, 0>>
        /\ user_data[Cur(c).user]
        /\ Len(calls[c].out) = 1
        /\ calls[c].out[1].kind = "pre_checkout_ok"

\* C19: every invoice request that is sent for an amount N >= 1 is priced at
\* N * 100 minor units, and a confirmed payment whose total is N * 100 for
\* some N >= 1 is recorded as a donation of exactly N.
C19_UnitsRoundTrip ==
    [][\A c \in CallIds :
        /\ \A i \in 1..Len(Sends(c)) :
            (Sends(c)[i].kind = "invoice" /\ Sends(c)[i].amount >= 1)
            => Sends(c)[i].price = Sends(c)[i].amount * 100
        /\ (Appends(c) /\ Cur(c).total_amount >= 100 /\ Cur(c).total_amount % 100 = 0)
            => donations'[Len(donations')].amount * 100 = Cur(c).total_amount]_vars

\* C19 witness: the invoice for 10 stars has been sent at the price of 1000,
\* and the confirmed payment of 1000 that carries its payload is in the ledger
\* as a donation of 10.
C19_Witness ==
    \E c, d \in CallIds :
        /\ Cur(c).kind = "callback"
        /\ calls[c].pc = "return"
        /\ \E i \in 1..Len(calls[c].out) :
            /\ calls[c].out[i].kind = "invoice"
            /\ calls[c].out[i].amount = 10
            /\ calls[c].out[i].price = Cur(d).total_amount
            /\ calls[c].out[i].payload = Cur(d).invoice_payload
        /\ Cur(d).kind = "payment"
        /\ Cur(d).user = Cur(c).user
        /\ Cur(d).total_amount = 1000
        /\ calls[d].pc = "payment_reply"
        /\ Len(donations) = 1
        /\ donations[1].amount = 10
        /\ donations[1].user_id = Cur(c).user

\* Call c sends a thank-you in this step.
Thanks(c) ==
    /\ Steps(c)
    /\ \E i \in 1..Len(Sends(c)) : Sends(c)[i].kind = "thanks"

\* C20: the thank-you of a confirmed payment is sent only after its donation
\* row is in the ledger; a notification whose append fails raises, sends no
\* thank-you and adds no row; and the number of thank-yous sent never exceeds
\* the number of donation rows.
C20_ThanksAfterCommit ==
    [][/\ thanked' <= Len(donations')
       /\ thanked' # thanked => \E c \in CallIds : Thanks(c)
       /\ \A c \in CallIds :
            /\ Thanks(c)
                => /\ calls[c].pc = "payment_reply"
                   /\ thanked' = thanked + 1
                   /\ \E k \in 1..Len(donations) :
                        /\ donations[k].user_id = Cur(c).user
                        /\ donations[k].payload = Cur(c).invoice_payload
            /\ (Handles(c, "payment") /\ ~dbUp)
                => /\ calls'[c].pc = "return"
                   /\ calls'[c].failed
                   /\ Sends(c) = <<>>
                   /\ thanked' = thanked
                   /\ donations' = donations]_vars

\* C20 witness: of two confirmed payments one was appended and thanked, the
\* other arrived while the storage was unavailable: it raised, nothing was
\* sent for it and the ledger holds the one row.
C20_Witness ==
    \E c, d \in CallIds :
        /\ Cur(c).kind = "payment" /\ Cur(d).kind = "payment"
        /\ calls[c].pc = "return" /\ ~calls[c].failed
        /\ Len(calls[c].out) = 1 /\ calls[c].out[1].kind = "thanks"
        /\ calls[d].pc = "return" /\ calls[d].failed
        /\ calls[d].out = <<>>
        /\ thanked = 1
        /\ Len(donations) = 1

====
